---- MODULE Spec2Model ----
(***************************************************************************)
(* Day scheduler of the lesson-plan generator                              *)
(* (app/generator_lesson_plan.py: _fmt_time, _build_schedule) and its copy  *)
(* in app/generator_lesson_plan_pdf.py (the pdf_ variables and the Pdf      *)
(* definitions), which is run on the same input once the first has         *)
(* returned.                                                               *)
(*                                                                         *)
(* A slot is the dict {"start", "end", "label"} the code appends; the two  *)
(* extra fields startMin and endMin record the integer clock values that   *)
(* were handed to _fmt_time for "start" and "end", so that durations and   *)
(* ordering can be stated in minutes from midnight.                        *)
(***************************************************************************)
EXTENDS Integers, Sequences, FiniteSets, TLC

\* ---------------------------------------------------------------- bounds
MaxDay == 2
MaxTopics == 3
MaxAssess == 2
MaxMinute == 1439
Durations == {0, 100, 120, 480}

\* ------------------------------------------------------ module constants
DAY_START_MINUTES == 9 * 60
LUNCH_DURATION == 60
DAY_TOTAL_MINUTES == 480
LunchThreshold == 13 * 60 - 10

VARIABLES
    learning_outcomes,  \* data.learning_outcomes: sequence of [day, topic]
    assessment_modes,   \* data.assessment_modes: sequence of [day, duration_minutes]
    pc,                 \* position in _build_schedule / _fmt_time
    topics_by_day,      \* dict day -> list of learning outcomes
    assess_by_day,      \* dict day -> summed assessment minutes
    num_days,
    schedule,           \* dict day -> list of slots
    day,                \* loop variable of "for day in range(1, num_days + 1)"
    slots,
    topics,
    assess_min,
    per_topic,
    current,            \* the running clock
    lunch_inserted,
    ti,                 \* index of the next topic of "for topic in topics"
    fmt_arg,            \* argument of a stand-alone _fmt_time call
    fmt_result,         \* its result
    pdf_pc,             \* the same locals, of generator_lesson_plan_pdf.py
    pdf_topics_by_day,
    pdf_assess_by_day,
    pdf_num_days,
    pdf_schedule,
    pdf_day,
    pdf_slots,
    pdf_topics,
    pdf_assess_min,
    pdf_per_topic,
    pdf_current,
    pdf_lunch_inserted,
    pdf_ti

vars == <<learning_outcomes, assessment_modes, pc, topics_by_day, assess_by_day,
          num_days, schedule, day, slots, topics, assess_min, per_topic,
          current, lunch_inserted, ti, fmt_arg, fmt_result,
          pdf_pc, pdf_topics_by_day, pdf_assess_by_day, pdf_num_days,
          pdf_schedule, pdf_day, pdf_slots, pdf_topics, pdf_assess_min,
          pdf_per_topic, pdf_current, pdf_lunch_inserted, pdf_ti>>

\* --------------------------------------------------------------- helpers
\* f"{m:02d}"
Pad2(n) == IF n < 10 THEN "0" \o ToString(n) ELSE ToString(n)

fmt_time_pm_inclusive(minutes_from_midnight) ==
    LET h0 == minutes_from_midnight \div 60
        m  == minutes_from_midnight % 60
        h  == IF h0 >= 12 THEN h0 - 12 ELSE IF h0 = 0 THEN 12 ELSE h0
    IN  ToString(h) \o ":" \o Pad2(m)

_fmt_time(minutes_from_midnight) ==
    LET h0 == minutes_from_midnight \div 60
        m  == minutes_from_midnight % 60
        h  == IF h0 > 12 THEN h0 - 12 ELSE IF h0 = 0 THEN 12 ELSE h0
    IN  ToString(h) \o ":" \o Pad2(m)

\* dict.get(k, default)
Get(d, k, default) == IF k \in DOMAIN d THEN d[k] ELSE default

SetMax(S) == CHOOSE x \in S : \A y \in S : y <= x

\* the dict literal appended to slots
MkSlot(s, e, label) ==
    [start |-> _fmt_time(s), end |-> _fmt_time(e), label |-> label,
     startMin |-> s, endMin |-> e]

\* topics_by_day.setdefault(lo.day, []).append(lo), over all learning outcomes
TopicsByDay(los) ==
    [d \in {los[i].day : i \in 1..Len(los)} |->
        SelectSeq(los, LAMBDA lo : lo.day = d)]

RECURSIVE AssessOverwrite(_)
AssessOverwrite(ams) ==
    IF ams = <<>> THEN <<>>
    ELSE LET n    == Len(ams)
             prev == AssessOverwrite(SubSeq(ams, 1, n - 1))
             am   == ams[n]
         IN  [d \in DOMAIN prev \cup {am.day} |->
                IF d = am.day THEN am.duration_minutes ELSE prev[d]]

\* assess_by_day[am.day] = assess_by_day.get(am.day, 0) + am.duration_minutes
RECURSIVE AssessByDay(_)
AssessByDay(ams) ==
    IF ams = <<>> THEN <<>>
    ELSE LET n    == Len(ams)
             prev == AssessByDay(SubSeq(ams, 1, n - 1))
             am   == ams[n]
         IN  [d \in DOMAIN prev \cup {am.day} |->
                IF d = am.day THEN Get(prev, d, 0) + am.duration_minutes
                ELSE prev[d]]

NumDaysByCount(tbd) == IF DOMAIN tbd # {} THEN Cardinality(DOMAIN tbd) ELSE 1

\* num_days = max(topics_by_day.keys()) if topics_by_day else 1
NumDays(tbd) == IF DOMAIN tbd # {} THEN SetMax(DOMAIN tbd) ELSE 1

InstructionMinIgnoringAssessment(a) == DAY_TOTAL_MINUTES

InstructionMinSwapped(a) == a - DAY_TOTAL_MINUTES

\* instruction_min = DAY_TOTAL_MINUTES - assess_min
InstructionMin(a) == DAY_TOTAL_MINUTES - a

PerTopicCeil(instruction_min, num_topics) ==
    IF num_topics # 0 THEN (instruction_min + num_topics - 1) \div num_topics ELSE 0

\* per_topic = instruction_min // num_topics if num_topics else 0
PerTopic(instruction_min, num_topics) ==
    IF num_topics # 0 THEN instruction_min \div num_topics ELSE 0

LunchDueAtNoon(inserted, cur) == ~inserted /\ cur >= 12 * 60

\* not lunch_inserted and current >= 13 * 60 - 10
LunchDue(inserted, cur) == ~inserted /\ cur >= LunchThreshold

\* lunch_end = current + LUNCH_DURATION ... current = lunch_end
LunchEnd(cur) == cur + LUNCH_DURATION

\* ------------------------------- helpers of generator_lesson_plan_pdf.py
PDF_DAY_START_MINUTES == 9 * 60
PDF_LUNCH_DURATION == 60
PDF_DAY_TOTAL_MINUTES == 480

Pdf_fmt_time(minutes_from_midnight) ==
    LET h0 == minutes_from_midnight \div 60
        m  == minutes_from_midnight % 60
        h  == IF h0 > 12 THEN h0 - 12 ELSE IF h0 = 0 THEN 12 ELSE h0
    IN  ToString(h) \o ":" \o Pad2(m)

PdfMkSlot(s, e, label) ==
    [start |-> Pdf_fmt_time(s), end |-> Pdf_fmt_time(e), label |-> label,
     startMin |-> s, endMin |-> e]

PdfTopicsByDay(los) ==
    [d \in {los[i].day : i \in 1..Len(los)} |->
        SelectSeq(los, LAMBDA lo : lo.day = d)]

RECURSIVE PdfAssessByDay(_)
PdfAssessByDay(ams) ==
    IF ams = <<>> THEN <<>>
    ELSE LET n    == Len(ams)
             prev == PdfAssessByDay(SubSeq(ams, 1, n - 1))
             am   == ams[n]
         IN  [d \in DOMAIN prev \cup {am.day} |->
                IF d = am.day THEN Get(prev, d, 0) + am.duration_minutes
                ELSE prev[d]]

PdfNumDays(tbd) == IF DOMAIN tbd # {} THEN SetMax(DOMAIN tbd) ELSE 1

PdfInstructionMin(a) == PDF_DAY_TOTAL_MINUTES - a

PdfPerTopic(instruction_min, num_topics) ==
    IF num_topics # 0 THEN instruction_min \div num_topics ELSE 0

PdfLunchDueAfterOne(inserted, cur) == ~inserted /\ cur > 13 * 60

PdfLunchDue(inserted, cur) == ~inserted /\ cur >= 13 * 60 - 10

PdfLunchEnd(cur) == cur + PDF_LUNCH_DURATION

\* --------------------------------------------------------------- inputs
TopicLabel(i) == "T" \o ToString(i)

LearningOutcomeLists ==
    UNION {{[i \in 1..n |-> [day |-> f[i], topic |-> TopicLabel(i)]] :
               f \in [1..n -> 1..MaxDay]} : n \in 0..MaxTopics}

AssessmentLists ==
    UNION {[1..n -> [day : 1..MaxDay, duration_minutes : Durations]] :
              n \in 0..MaxAssess}

\* ------------------------------------------------------- _build_schedule
Idle ==
    /\ topics_by_day = <<>>
    /\ assess_by_day = <<>>
    /\ num_days = 0
    /\ schedule = <<>>
    /\ day = 0
    /\ slots = <<>>
    /\ topics = <<>>
    /\ assess_min = 0
    /\ per_topic = 0
    /\ current = 0
    /\ lunch_inserted = FALSE
    /\ ti = 0

pdfVars == <<pdf_pc, pdf_topics_by_day, pdf_assess_by_day, pdf_num_days,
             pdf_schedule, pdf_day, pdf_slots, pdf_topics, pdf_assess_min,
             pdf_per_topic, pdf_current, pdf_lunch_inserted, pdf_ti>>

PdfIdle ==
    /\ pdf_pc = "group"
    /\ pdf_topics_by_day = <<>>
    /\ pdf_assess_by_day = <<>>
    /\ pdf_num_days = 0
    /\ pdf_schedule = <<>>
    /\ pdf_day = 0
    /\ pdf_slots = <<>>
    /\ pdf_topics = <<>>
    /\ pdf_assess_min = 0
    /\ pdf_per_topic = 0
    /\ pdf_current = 0
    /\ pdf_lunch_inserted = FALSE
    /\ pdf_ti = 0

Init ==
    /\ learning_outcomes \in LearningOutcomeLists
    /\ assessment_modes \in AssessmentLists
    /\ pc = "group"
    /\ Idle
    /\ PdfIdle
    /\ fmt_arg = 0
    /\ fmt_result = ""

dayVars == <<slots, topics, assess_min, per_topic, current, lunch_inserted, ti>>
inputVars == <<learning_outcomes, assessment_modes, fmt_arg, fmt_result>>
groupVars == <<topics_by_day, assess_by_day, num_days>>

\* lines 32-43: group topics and assessment minutes by day, count the days
Group ==
    /\ pc = "group"
    /\ topics_by_day' = TopicsByDay(learning_outcomes)
    /\ assess_by_day' = AssessByDay(assessment_modes)
    /\ num_days' = NumDays(topics_by_day')
    /\ schedule' = <<>>
    /\ day' = 1
    /\ pc' = "day"
    /\ UNCHANGED <<pdfVars, dayVars, inputVars>>

\* lines 45-56: head of the loop over days
DayStart ==
    /\ pc = "day"
    /\ day <= num_days
    /\ slots' = <<>>
    /\ topics' = Get(topics_by_day, day, <<>>)
    /\ assess_min' = Get(assess_by_day, day, 0)
    /\ per_topic' = PerTopic(InstructionMin(assess_min'), Len(topics'))
    /\ current' = DAY_START_MINUTES
    /\ lunch_inserted' = FALSE
    /\ ti' = 1
    /\ pc' = "topics"
    /\ UNCHANGED <<pdfVars, inputVars, groupVars, schedule, day>>

\* lines 58-77: one iteration of the loop over the day's topics
TopicIter ==
    /\ pc = "topics"
    /\ ti <= Len(topics)
    /\ LET due    == LunchDue(lunch_inserted, current)
           lunch  == MkSlot(current, LunchEnd(current), "Lunch Break")
           cur1   == IF due THEN LunchEnd(current) ELSE current
           slots1 == IF due THEN Append(slots, lunch) ELSE slots
           end    == cur1 + per_topic
       IN  /\ slots' = Append(slots1, MkSlot(cur1, end, topics[ti].topic))
           /\ current' = end
           /\ lunch_inserted' = (lunch_inserted \/ due)
    /\ ti' = ti + 1
    /\ UNCHANGED <<pdfVars, inputVars, groupVars, schedule, day, topics, assess_min,
                   per_topic, pc>>

LunchFallbackAlways ==
    /\ pc = "topics"
    /\ ti > Len(topics)
    /\ IF assess_min > 0
       THEN /\ slots' = Append(slots,
                            MkSlot(current, LunchEnd(current), "Lunch Break"))
            /\ current' = LunchEnd(current)
       ELSE UNCHANGED <<slots, current>>
    /\ pc' = "assess"
    /\ UNCHANGED <<pdfVars, inputVars, groupVars, schedule, day, topics, assess_min,
                   per_topic, lunch_inserted, ti>>

LunchFallbackNoAdvance ==
    /\ pc = "topics"
    /\ ti > Len(topics)
    /\ IF ~lunch_inserted /\ assess_min > 0
       THEN /\ slots' = Append(slots,
                            MkSlot(current, LunchEnd(current), "Lunch Break"))
            /\ current' = current
       ELSE UNCHANGED <<slots, current>>
    /\ pc' = "assess"
    /\ UNCHANGED <<pdfVars, inputVars, groupVars, schedule, day, topics, assess_min,
                   per_topic, lunch_inserted, ti>>

\* lines 79-87: lunch after the last topic if none was inserted
LunchFallback ==
    /\ pc = "topics"
    /\ ti > Len(topics)
    /\ IF ~lunch_inserted /\ assess_min > 0
       THEN /\ slots' = Append(slots,
                            MkSlot(current, LunchEnd(current), "Lunch Break"))
            /\ current' = LunchEnd(current)
       ELSE UNCHANGED <<slots, current>>
    /\ pc' = "assess"
    /\ UNCHANGED <<pdfVars, inputVars, groupVars, schedule, day, topics, assess_min,
                   per_topic, lunch_inserted, ti>>

\* lines 89-98: assessment slot, then schedule[day] = slots
FinishDay ==
    /\ pc = "assess"
    /\ slots' = IF assess_min > 0
                THEN Append(slots,
                            MkSlot(current, current + assess_min, "Assessment"))
                ELSE slots
    /\ schedule' = [d \in DOMAIN schedule \cup {day} |->
                       IF d = day THEN slots' ELSE schedule[d]]
    /\ day' = day + 1
    /\ pc' = "day"
    /\ UNCHANGED <<pdfVars, inputVars, groupVars, topics, assess_min, per_topic,
                   current, lunch_inserted, ti>>

\* line 100: return schedule
Return ==
    /\ pc = "day"
    /\ day > num_days
    /\ pc' = "done"
    /\ UNCHANGED <<pdfVars, inputVars, groupVars, schedule, day, dayVars>>

Next == Group \/ DayStart \/ TopicIter \/ LunchFallback \/ FinishDay \/ Return

Spec == Init /\ [][Next]_vars

\* ------------------------- _build_schedule of generator_lesson_plan_pdf.py
docxVars == <<pc, groupVars, schedule, day, dayVars>>
pdfDayVars == <<pdf_slots, pdf_topics, pdf_assess_min, pdf_per_topic,
                pdf_current, pdf_lunch_inserted, pdf_ti>>
pdfGroupVars == <<pdf_topics_by_day, pdf_assess_by_day, pdf_num_days>>

\* pdf lines 36-45
PdfGroup ==
    /\ pdf_pc = "group"
    /\ pdf_topics_by_day' = PdfTopicsByDay(learning_outcomes)
    /\ pdf_assess_by_day' = PdfAssessByDay(assessment_modes)
    /\ pdf_num_days' = PdfNumDays(pdf_topics_by_day')
    /\ pdf_schedule' = <<>>
    /\ pdf_day' = 1
    /\ pdf_pc' = "day"
    /\ UNCHANGED <<docxVars, inputVars, pdfDayVars>>

\* pdf lines 47-57
PdfDayStart ==
    /\ pdf_pc = "day"
    /\ pdf_day <= pdf_num_days
    /\ pdf_slots' = <<>>
    /\ pdf_topics' = Get(pdf_topics_by_day, pdf_day, <<>>)
    /\ pdf_assess_min' = Get(pdf_assess_by_day, pdf_day, 0)
    /\ pdf_per_topic' =
           PdfPerTopic(PdfInstructionMin(pdf_assess_min'), Len(pdf_topics'))
    /\ pdf_current' = PDF_DAY_START_MINUTES
    /\ pdf_lunch_inserted' = FALSE
    /\ pdf_ti' = 1
    /\ pdf_pc' = "topics"
    /\ UNCHANGED <<docxVars, inputVars, pdfGroupVars, pdf_schedule, pdf_day>>

\* pdf lines 59-76
PdfTopicIter ==
    /\ pdf_pc = "topics"
    /\ pdf_ti <= Len(pdf_topics)
    /\ LET due    == PdfLunchDue(pdf_lunch_inserted, pdf_current)
           lunch  == PdfMkSlot(pdf_current, PdfLunchEnd(pdf_current),
                               "Lunch Break")
           cur1   == IF due THEN PdfLunchEnd(pdf_current) ELSE pdf_current
           slots1 == IF due THEN Append(pdf_slots, lunch) ELSE pdf_slots
           end    == cur1 + pdf_per_topic
       IN  /\ pdf_slots' =
                  Append(slots1, PdfMkSlot(cur1, end, pdf_topics[pdf_ti].topic))
           /\ pdf_current' = end
           /\ pdf_lunch_inserted' = (pdf_lunch_inserted \/ due)
    /\ pdf_ti' = pdf_ti + 1
    /\ UNCHANGED <<docxVars, inputVars, pdfGroupVars, pdf_schedule, pdf_day,
                   pdf_topics, pdf_assess_min, pdf_per_topic, pdf_pc>>

\* pdf lines 78-85
PdfLunchFallback ==
    /\ pdf_pc = "topics"
    /\ pdf_ti > Len(pdf_topics)
    /\ IF ~pdf_lunch_inserted /\ pdf_assess_min > 0
       THEN /\ pdf_slots' =
                   Append(pdf_slots,
                          PdfMkSlot(pdf_current, PdfLunchEnd(pdf_current),
                                    "Lunch Break"))
            /\ pdf_current' = PdfLunchEnd(pdf_current)
       ELSE UNCHANGED <<pdf_slots, pdf_current>>
    /\ pdf_pc' = "assess"
    /\ UNCHANGED <<docxVars, inputVars, pdfGroupVars, pdf_schedule, pdf_day,
                   pdf_topics, pdf_assess_min, pdf_per_topic,
                   pdf_lunch_inserted, pdf_ti>>

\* pdf lines 87-95
PdfFinishDay ==
    /\ pdf_pc = "assess"
    /\ pdf_slots' =
           IF pdf_assess_min > 0
           THEN Append(pdf_slots,
                       PdfMkSlot(pdf_current, pdf_current + pdf_assess_min,
                                 "Assessment"))
           ELSE pdf_slots
    /\ pdf_schedule' = [d \in DOMAIN pdf_schedule \cup {pdf_day} |->
                           IF d = pdf_day THEN pdf_slots' ELSE pdf_schedule[d]]
    /\ pdf_day' = pdf_day + 1
    /\ pdf_pc' = "day"
    /\ UNCHANGED <<docxVars, inputVars, pdfGroupVars, pdf_topics,
                   pdf_assess_min, pdf_per_topic, pdf_current,
                   pdf_lunch_inserted, pdf_ti>>

\* pdf line 97
PdfReturn ==
    /\ pdf_pc = "day"
    /\ pdf_day > pdf_num_days
    /\ pdf_pc' = "done"
    /\ UNCHANGED <<docxVars, inputVars, pdfGroupVars, pdf_schedule, pdf_day,
                   pdfDayVars>>

PdfNext ==
    \/ PdfGroup \/ PdfDayStart \/ PdfTopicIter
    \/ PdfLunchFallback \/ PdfFinishDay \/ PdfReturn

\* both generators on one input: the pdf one once the docx one has returned
NextBoth == Next \/ (pc = "done" /\ PdfNext)

SpecBoth == Init /\ [][NextBoth]_vars

\* ------------------------------------------------- stand-alone _fmt_time
InitFmt ==
    /\ fmt_arg \in 0..MaxMinute
    /\ fmt_result = ""
    /\ pc = "fmt"
    /\ learning_outcomes = <<>>
    /\ assessment_modes = <<>>
    /\ Idle
    /\ PdfIdle

FmtTime ==
    /\ pc = "fmt"
    /\ fmt_result' = _fmt_time(fmt_arg)
    /\ pc' = "fmt_done"
    /\ UNCHANGED <<learning_outcomes, assessment_modes, fmt_arg, groupVars,
                   schedule, day, dayVars, pdfVars>>

NextFmt == FmtTime

SpecFmt == InitFmt /\ [][NextFmt]_vars

\* ------------------------------------------------- vocabulary of the claims
Done == pc = "done"

Days == DOMAIN schedule

IsLunch(s) == s.label = "Lunch Break"

IsAssessment(s) == s.label = "Assessment"

IsTopic(s) == ~IsLunch(s) /\ ~IsAssessment(s)

Dur(s) == s.endMin - s.startMin

RECURSIVE SumDur(_)
SumDur(sl) == IF sl = <<>> THEN 0 ELSE Dur(Head(sl)) + SumDur(Tail(sl))

RECURSIVE SumMinutes(_)
SumMinutes(ams) ==
    IF ams = <<>> THEN 0
    ELSE Head(ams).duration_minutes + SumMinutes(Tail(ams))

\* the day's summed assessment minutes, read off the input
AssessmentMinutes(d) ==
    SumMinutes(SelectSeq(assessment_modes, LAMBDA am : am.day = d))

\* the day's topics, read off the input
DayTopics(d) == SelectSeq(learning_outcomes, LAMBDA lo : lo.day = d)

TopicSlots(sl) == SelectSeq(sl, IsTopic)

LunchSlots(sl) == SelectSeq(sl, IsLunch)

AssessmentSlots(sl) == SelectSeq(sl, IsAssessment)

Labels(sl) == [i \in 1..Len(sl) |-> sl[i].label]

\* the clock value tested by the lunch rule before the topic of slot i
PreTopicClock(sl, i) ==
    IF i > 1 /\ IsLunch(sl[i - 1]) THEN sl[i - 1].startMin ELSE sl[i].startMin

\* --------------------------------------------------------------------- C1
\* C1: in every day of the returned schedule each slot ends where the next
\* one starts (as clock value and as formatted time), and a day's first slot
\* starts at 9:00 (540 minutes).
C1_Contiguous ==
    Done => \A d \in Days :
        LET sl == schedule[d] IN
        /\ \A i \in 1..(Len(sl) - 1) :
              /\ sl[i].endMin = sl[i + 1].startMin
              /\ sl[i].end = sl[i + 1].start
        /\ sl # <<>> => /\ sl[1].startMin = 540
                        /\ sl[1].start = "9:00"

C1_Witness ==
    /\ Done
    /\ Cardinality(Days) >= 2
    /\ \A d \in Days :
          /\ LunchSlots(schedule[d]) # <<>>
          /\ AssessmentSlots(schedule[d]) # <<>>
          /\ Len(TopicSlots(schedule[d])) >= 1

\* --------------------------------------------------------------------- C2
\* C2: a day whose summed assessment minutes are positive ends with a slot
\* labeled "Assessment" that lasts exactly that sum; a day whose sum is zero
\* has no "Assessment" slot.
C2_AssessmentLast ==
    Done => \A d \in Days :
        LET sl == schedule[d]
            a  == AssessmentMinutes(d)
        IN  IF a > 0
            THEN /\ sl # <<>>
                 /\ IsAssessment(sl[Len(sl)])
                 /\ Dur(sl[Len(sl)]) = a
                 /\ Len(AssessmentSlots(sl)) = 1
            ELSE AssessmentSlots(sl) = <<>>

C2_Witness ==
    /\ Done
    /\ \E d \in Days :
          /\ Len(SelectSeq(assessment_modes,
                           LAMBDA am : am.day = d /\ am.duration_minutes > 0)) = 2
          /\ Dur(schedule[d][Len(schedule[d])]) = AssessmentMinutes(d)
    /\ \E d \in Days :
          /\ AssessmentMinutes(d) = 0
          /\ schedule[d] # <<>>

\* --------------------------------------------------------------------- C3
\* C3: a day has exactly one "Lunch Break" slot, of 60 minutes, unless it has
\* zero assessment minutes and the clock is below 770 at every pre-topic
\* check; then it has none.  No day has two lunch slots.
C3_OneLunch ==
    Done => \A d \in Days :
        LET sl       == schedule[d]
            excepted ==
                /\ AssessmentMinutes(d) = 0
                /\ \A i \in 1..Len(sl) :
                      IsTopic(sl[i]) => PreTopicClock(sl, i) < 770
        IN  IF excepted
            THEN LunchSlots(sl) = <<>>
            ELSE /\ Len(LunchSlots(sl)) = 1
                 /\ Dur(LunchSlots(sl)[1]) = 60

C3_Witness ==
    /\ Done
    /\ \E d \in Days :
          /\ AssessmentMinutes(d) = 0
          /\ Len(schedule[d]) >= 1
          /\ LunchSlots(schedule[d]) = <<>>
    /\ \E d \in Days :
          /\ AssessmentMinutes(d) = 0
          /\ Len(LunchSlots(schedule[d])) = 1
          /\ Len(TopicSlots(schedule[d])) >= 2

\* --------------------------------------------------------------------- C4
\* C4 as claimed: every "Lunch Break" slot starts at a clock value >= 770 and
\* no earlier slot boundary of the day was >= 770; at most one per day.
C4_LunchAtThreshold ==
    Done => \A d \in Days :
        LET sl == schedule[d] IN
        /\ Len(LunchSlots(sl)) <= 1
        /\ \A i \in 1..Len(sl) :
              IsLunch(sl[i]) =>
                  /\ sl[i].startMin >= 770
                  /\ \A j \in 1..(i - 1) : sl[j].startMin < 770

\* C4 amended: at most one "Lunch Break" slot per day, and no slot boundary
\* before it was >= 770.  A lunch inserted in the topic loop (a topic slot
\* follows it) starts at >= 770; a lunch inserted by the post-loop fallback is
\* followed only by the final "Assessment" slot and starts where the clock
\* stands after the last topic, whatever that value is.
C4_LunchAtThresholdOrFallback ==
    Done => \A d \in Days :
        LET sl == schedule[d] IN
        /\ Len(LunchSlots(sl)) <= 1
        /\ \A i \in 1..Len(sl) :
              IsLunch(sl[i]) =>
                  /\ \A j \in 1..(i - 1) : sl[j].startMin < 770
                  /\ i < Len(sl)
                  /\ IF IsTopic(sl[i + 1])
                     THEN sl[i].startMin >= 770
                     ELSE /\ IsAssessment(sl[i + 1])
                          /\ i + 1 = Len(sl)
                          /\ sl[i].startMin =
                                 540 + SumDur(TopicSlots(sl))

C4_Witness ==
    /\ Done
    /\ \E d \in Days : \E i \in 1..(Len(schedule[d]) - 1) :
          /\ IsLunch(schedule[d][i])
          /\ IsTopic(schedule[d][i + 1])
          /\ schedule[d][i].startMin > 770
    /\ \E d \in Days : \E i \in 2..(Len(schedule[d]) - 1) :
          /\ IsLunch(schedule[d][i])
          /\ IsAssessment(schedule[d][i + 1])
          /\ schedule[d][i].startMin < 770

\* --------------------------------------------------------------------- C5
Monotone(sl) ==
    /\ \A i \in 1..Len(sl) : sl[i].endMin >= sl[i].startMin
    /\ \A i \in 1..(Len(sl) - 1) :
          /\ sl[i].startMin <= sl[i + 1].startMin
          /\ sl[i].endMin <= sl[i + 1].startMin

\* C5 as claimed: for all inputs with day >= 1 and duration_minutes >= 0,
\* slot starts are non-decreasing and no two slots of a day overlap.
C5_Monotone ==
    Done => \A d \in Days : Monotone(schedule[d])

\* C5 amended: the same, for every day whose summed assessment minutes do
\* not exceed DAY_TOTAL_MINUTES (480).
C5_MonotoneWithinBudget ==
    Done => \A d \in Days :
        AssessmentMinutes(d) <= 480 => Monotone(schedule[d])

C5_Witness ==
    /\ Done
    /\ \E d \in Days :
          /\ AssessmentMinutes(d) \in 1..480
          /\ Len(TopicSlots(schedule[d])) >= 2
          /\ Len(schedule[d]) >= 4
    /\ \E d \in Days :
          /\ AssessmentMinutes(d) = 480
          /\ Len(TopicSlots(schedule[d])) >= 1

\* --------------------------------------------------------------------- C6
\* C6: a day with N > 0 topics and summed assessment minutes a has one topic
\* slot per topic, in input order and with the topic's label, each lasting
\* floor((480 - a) / N); the topic slots sum to floor((480 - a) / N) * N and
\* the remainder (480 - a) mod N is in no slot.
C6_EvenSplit ==
    Done => \A d \in Days :
        LET sl == schedule[d]
            ts == TopicSlots(sl)
            in == DayTopics(d)
            N  == Len(in)
            a  == AssessmentMinutes(d)
        IN  N > 0 =>
            /\ Len(ts) = N
            /\ \A k \in 1..N : /\ ts[k].label = in[k].topic
                               /\ Dur(ts[k]) * N <= 480 - a
                               /\ 480 - a < (Dur(ts[k]) + 1) * N
            /\ SumDur(ts) + ((480 - a) % N) = 480 - a
            /\ SumDur(sl) = (480 - a) - ((480 - a) % N)
                            + 60 * Len(LunchSlots(sl))
                            + (IF a > 0 THEN a ELSE 0)

C6_Witness ==
    /\ Done
    /\ \E d \in Days :
          /\ Len(DayTopics(d)) = 3
          /\ (480 - AssessmentMinutes(d)) % 3 = 2
          /\ SumDur(TopicSlots(schedule[d])) = 378
          /\ Labels(TopicSlots(schedule[d])) = <<"T1", "T2", "T3">>

C8_Input ==
    /\ Len(learning_outcomes) = 2
    /\ \A i \in 1..2 : learning_outcomes[i].day = 1
    /\ AssessmentMinutes(1) = 120

\* C8 as claimed: 1 day, 2 topics, 120 assessment minutes gives the 4 slots
\* topic1, Lunch Break, topic2, Assessment; topics of 180 minutes, Assessment
\* of 120 minutes ending 120 after the slot before it.
C8_Scenario ==
    (Done /\ C8_Input) =>
        LET sl == schedule[1] IN
        /\ Days = {1}
        /\ Labels(sl) = <<"T1", "Lunch Break", "T2", "Assessment">>
        /\ Dur(sl[1]) = 180 /\ Dur(sl[3]) = 180
        /\ Dur(sl[4]) = 120
        /\ sl[4].endMin = sl[3].endMin + 120

\* C8 amended: the 4 slots are topic1, topic2, Lunch Break, Assessment (the
\* clock is 720 < 770 before topic2, so lunch comes from the fallback);
\* topics of 180 minutes, Assessment of 120 minutes ending 120 after the slot
\* before it.
C8_ScenarioFallbackLunch ==
    (Done /\ C8_Input) =>
        LET sl == schedule[1] IN
        /\ Days = {1}
        /\ Labels(sl) = <<"T1", "T2", "Lunch Break", "Assessment">>
        /\ Dur(sl[1]) = 180 /\ Dur(sl[2]) = 180
        /\ Dur(sl[3]) = 60
        /\ Dur(sl[4]) = 120
        /\ sl[4].endMin = sl[3].endMin + 120
        /\ [i \in 1..4 |-> sl[i].start] = <<"9:00", "12:00", "3:00", "4:00">>
        /\ sl[4].end = "6:00"

C8_Witness ==
    /\ Done
    /\ C8_Input
    /\ Len(schedule[1]) = 4
    /\ schedule[1][3].startMin = 900

\* --------------------------------------------------------------------- C9
Digit(d) == <<"0", "1", "2", "3", "4", "5", "6", "7", "8", "9">>[d + 1]

TwoDigits(n) == Digit(n \div 10) \o Digit(n % 10)

\* C9: _fmt_time(m) is H:MM with H the 12-hour rendering of m div 60 (h - 12
\* above 12, 12 for 0, h otherwise, so always in 1..12) and MM = m mod 60 on
\* two digits; 540 -> "9:00", 0 -> "12:00", 780 -> "1:00", 1439 -> "11:59".
C9_FmtTime ==
    pc = "fmt_done" =>
        LET h  == fmt_arg \div 60
            H  == ((h + 11) % 12) + 1
            HH == IF H < 10 THEN Digit(H) ELSE TwoDigits(H)
        IN  /\ H \in 1..12
            /\ (h > 12 => H = h - 12) /\ (h = 0 => H = 12)
            /\ (h \in 1..12 => H = h)
            /\ fmt_result = HH \o ":" \o TwoDigits(fmt_arg % 60)
            /\ fmt_arg = 540 => fmt_result = "9:00"
            /\ fmt_arg = 0 => fmt_result = "12:00"
            /\ fmt_arg = 780 => fmt_result = "1:00"
            /\ fmt_arg = 1439 => fmt_result = "11:59"

C9_Witness ==
    /\ pc = "fmt_done"
    /\ fmt_arg = 1439
    /\ fmt_result = "11:59"

\* -------------------------------------------------------------------- C10
\* C10: in a day whose summed assessment minutes a satisfy 0 <= a <= 480,
\* every slot boundary lies between 540 (9:00) and 1080 (18:00).
C10_WithinWorkingDay ==
    Done => \A d \in Days :
        AssessmentMinutes(d) \in 0..480 =>
            \A i \in 1..Len(schedule[d]) :
                /\ schedule[d][i].startMin \in 540..1080
                /\ schedule[d][i].endMin \in 540..1080

C10_Witness ==
    /\ Done
    /\ \E d \in Days :
          LET sl == schedule[d] IN
          /\ AssessmentMinutes(d) \in 1..480
          /\ Len(TopicSlots(sl)) >= 2
          /\ sl[Len(sl)].endMin = 1080
          /\ sl[Len(sl)].end = "6:00"
    /\ \E d \in Days : DayTopics(d) = <<>> /\ AssessmentMinutes(d) = 480

\* -------------------------------------------------------------------- C11
Triples(sl) ==
    [i \in 1..Len(sl) |->
        <<sl[i].start, sl[i].end, sl[i].label>>]

IsPrefix(s, full) == Len(s) <= Len(full) /\ s = SubSeq(full, 1, Len(s))

\* C11: on every input the pdf copy of _build_schedule returns the mapping
\* the docx one returned: the same day keys and per day the same sequence of
\* (start, end, label) slots.  On the way the copy builds the same grouping
\* dicts and day count, every day it has recorded equals the docx day, and
\* the slots of the day it is working on (after each topic, the lunch
\* fallback and the assessment slot) are a prefix of the docx day's slots.
C11_CopiesAgree ==
    pc = "done" =>
        /\ pdf_pc # "group" =>
              /\ pdf_topics_by_day = topics_by_day
              /\ pdf_assess_by_day = assess_by_day
              /\ pdf_num_days = num_days
        /\ \A d \in DOMAIN pdf_schedule :
              /\ d \in DOMAIN schedule
              /\ Triples(pdf_schedule[d]) = Triples(schedule[d])
              /\ pdf_schedule[d] = schedule[d]
        /\ pdf_pc \in {"topics", "assess"} =>
              /\ pdf_day \in DOMAIN schedule
              /\ IsPrefix(Triples(pdf_slots), Triples(schedule[pdf_day]))
              /\ IsPrefix(pdf_slots, schedule[pdf_day])
        /\ pdf_pc = "done" =>
              /\ DOMAIN pdf_schedule = DOMAIN schedule
              /\ pdf_schedule = schedule

C11_Witness ==
    /\ pc = "done"
    /\ pdf_pc = "done"
    /\ Cardinality(DOMAIN pdf_schedule) = 2
    /\ \E d \in DOMAIN pdf_schedule : \E i \in 1..(Len(pdf_schedule[d]) - 1) :
          /\ IsLunch(pdf_schedule[d][i])
          /\ IsTopic(pdf_schedule[d][i + 1])
    /\ \E d \in DOMAIN pdf_schedule : \E i \in 1..(Len(pdf_schedule[d]) - 1) :
          /\ IsLunch(pdf_schedule[d][i])
          /\ IsAssessment(pdf_schedule[d][i + 1])

====
